---- MODULE Spec2Model ----
(***************************************************************************)
(* Model of sairen/env.py: MarketEnv, the bridge between the asynchronous  *)
(* IBroke gateway callbacks (_on_mktdata, _on_order) and the synchronous   *)
(* reset / step / close calls of the agent.                                *)
(*                                                                         *)
(* Two threads of control are modelled:                                    *)
(*   - the caller's thread (pc), running _reset, _step, _close one source  *)
(*     line (or one run of thread-private lines) at a time;                *)
(*   - the gateway's event thread (cb), running one callback at a time.    *)
(* finish_on_next_step() is a single assignment and may be called from     *)
(* anywhere, so it is enabled in every state.                              *)
(*                                                                         *)
(* The gateway itself (ibroke.IBroke) is an external library.  It is       *)
(* modelled by its observable state only: the position it reports, the     *)
(* open orders it holds and whether it is connected.  Orders fill or stay  *)
(* open at the gateway's pleasure; a cancel request may come too late.     *)
(*                                                                         *)
(* Money is counted in whole units, actions in hundredths (100 = 1.0),     *)
(* observations are numbered by the bar they were made from and the value  *)
(* None is written NoneObs.                                                *)
(***************************************************************************)
EXTENDS Integers, Sequences, FiniteSets, TLC

\* ---------------------------------------------------------------- bounds
MaxObs == 3             \* observations the transform makes in one behaviour
MaxStepNum == 3         \* cap on step_num (the code's counter is unbounded)
MaxRawAction == 150     \* largest size of a raw action, in hundredths
MaxQueueLive == 2       \* an endless feed pauses while this many items are pending

\* ------------------------------------------------------ program constants
ActionLow == -100       \* action_space = Box(-1, 1): low, in hundredths
ActionHigh == 100       \* action_space = Box(-1, 1): high, in hundredths
PositionSlack == 1      \* abs(position) <= self.max_quantity + 1
OpenOrdersLimit == 2    \* open_orders <= 2
ActTimeMaxLen == 10     \* deque(maxlen=10)
BackpressureSize == 1   \* self.data_q.qsize() > 1

NoneObs == 0
NoEpisodeSteps == 0     \* episode_steps=None
\* the inputs
ActionVals == {-150, 55}                    \* step(action), in hundredths
Profits == {1}                              \* order.profit of a fill
InitPositions == {0, 2}                     \* position held at construction
MaxQuantityVals == {1}                      \* __init__(max_quantity=1), the default
TargetQuantities == {1, 10}                 \* __init__(max_quantity=...) for the conversion
EpisodeStepsVals == {NoEpisodeSteps, 1, 2}  \* __init__(episode_steps=...)

VARIABLES
    \* MarketEnv fields
    has_ib,                 \* hasattr(self, 'ib'): the constructor got past IBroke(...)
    max_quantity,           \* self.max_quantity
    episode_steps,          \* self.episode_steps (NoEpisodeSteps for None)
    done,                   \* self.done
    step_num,               \* self.step_num
    profit,                 \* self.profit
    episode_profit,         \* self.episode_profit
    reward,                 \* self.reward
    pos_desired,            \* self.pos_desired
    finish_on_next_step,    \* self._finish_on_next_step
    data_q_none,            \* self.data_q is None
    data_q,                 \* the items of self.data_q
    observation,            \* self.observation
    act_time,               \* len(self.act_time)
    act_start_time,         \* self.act_start_time is not None
    \* the caller's thread
    pc,                     \* where the caller's thread is
    action,                 \* _step's local action, after forcing and clipping
    done_local,             \* _step's local done
    position,               \* _step's local position
    open_orders,            \* _step's local open_orders
    issued,                 \* what _step did at the guard: "none", "issued", "skipped"
    pos_prev,               \* pos_desired when the running step was called
    \* the gateway's event thread
    cb,                     \* where the event thread is
    cb_obs,                 \* _on_mktdata's local obs
    cb_pending,             \* _on_mktdata: the items line 136 found in the queue
    cb_loaded,              \* _on_order: self.profit as loaded by +=
    cb_p,                   \* _on_order: order.profit
    \* a thread that runs _close beside the caller's thread
    cl,                     \* where that thread is
    \* the gateway
    connected,              \* self.ib.connected
    ib_position,            \* what self.ib.get_position() returns
    ib_orders,              \* quantities of the open orders, ascending
    \* bookkeeping of the verification
    n_obs,                  \* observations made so far
    unread,                 \* profit of the fills recorded since the accumulator was last read
    reward_sum,             \* sum of the rewards returned since the last reset
    enqueued,               \* the observations put in the queue since line 194 made it
    returned,               \* the observations reset and step returned since then
    accepted                \* the observations line 135 let pass since line 189

env_vars == <<has_ib, max_quantity, episode_steps, done, step_num, profit, episode_profit, reward,
              pos_desired, finish_on_next_step, data_q_none, data_q,
              observation, act_time, act_start_time>>
caller_vars == <<pc, action, done_local, position, open_orders, issued, pos_prev>>
cb_vars == <<cb, cb_obs, cb_pending, cb_loaded, cb_p>>
gw_vars == <<connected, ib_position, ib_orders>>
log_vars == <<enqueued, returned, accepted>>
aux_vars == <<n_obs, unread, reward_sum, log_vars>>
vars == <<env_vars, caller_vars, cb_vars, cl, gw_vars, aux_vars>>

\* ------------------------------------------------------------- helpers
Abs(x) == IF x < 0 THEN -x ELSE x
Min(a, b) == IF a < b THEN a ELSE b
Max(a, b) == IF a > b THEN a ELSE b

\* np.clip(action, low, high)
Clip(a) == Max(ActionLow, Min(ActionHigh, a))

\* action_space.contains(action), line 216
Contains(a) == ActionLow <= a /\ a <= ActionHigh

\* round(n / d) as it would be with ties rounded up
Round_HalfUp(n, d) ==
    LET q == n \div d
        r == n - q * d
    IN  IF 2 * r < d THEN q ELSE q + 1

\* Python 3 round(n / d) for d > 0: to nearest, ties to even
Round(n, d) ==
    LET q == n \div d
        r == n - q * d
    IN  IF 2 * r < d THEN q
        ELSE IF 2 * r > d THEN q + 1
        ELSE IF q % 2 = 0 THEN q ELSE q + 1

\* int(round(action * self.max_quantity)), action in hundredths
TargetPosition(a) == Round(a * max_quantity, 100)

\* s with the element at index i removed
RemoveAt(s, i) == [j \in 1..(Len(s) - 1) |-> IF j < i THEN s[j] ELSE s[j + 1]]

\* the ascending sequence s with q inserted
RECURSIVE Insert(_, _)
Insert(s, q) ==
    IF s = <<>> THEN <<q>>
    ELSE IF q <= Head(s) THEN <<q>> \o s
    ELSE <<Head(s)>> \o Insert(Tail(s), q)

\* the elements of s whose index is in K, in order
RECURSIVE Keep(_, _, _)
Keep(s, K, i) ==
    IF i > Len(s) THEN <<>>
    ELSE (IF i \in K THEN <<s[i]>> ELSE <<>>) \o Keep(s, K, i + 1)

\* ------------------------------------------------- the gateway's requests
\* ib.cancel_all(instrument): each open order is cancelled unless the request
\* comes too late for it; a disconnected gateway sends nothing.
CancelAll(orders, K) ==
    IF connected THEN Keep(orders, K, 1) ELSE orders

\* ib.order_target(instrument, target): an order for the difference to the
\* position held now; nothing to do when there is none.
OrderTarget(orders, target) ==
    IF connected /\ target # ib_position
    THEN Insert(orders, target - ib_position)
    ELSE orders

\* ------------------------------------------------------------------ Init
\* The state after __init__ (lines 92-123).  has_ib = FALSE is the object
\* whose constructor failed in IBroke(...): only _close is ever run on it.
Init ==
    /\ has_ib \in BOOLEAN
    /\ max_quantity \in MaxQuantityVals
    /\ episode_steps \in EpisodeStepsVals
    /\ done = TRUE
    /\ step_num = 0
    /\ profit = 0
    /\ episode_profit = 0
    /\ reward = 0
    /\ pos_desired = 0
    /\ ib_position \in InitPositions
    /\ finish_on_next_step = FALSE
    /\ data_q_none = TRUE
    /\ data_q = <<>>
    /\ observation = NoneObs
    /\ act_time = 0
    /\ act_start_time = FALSE
    /\ pc = "idle"
    /\ action = 0
    /\ done_local = FALSE
    /\ position = 0
    /\ open_orders = 0
    /\ issued = "none"
    /\ pos_prev = 0
    /\ cb = "idle"
    /\ cb_obs = NoneObs
    /\ cb_loaded = 0
    /\ cb_p = 0
    /\ cl = "idle"
    /\ cb_pending = 0
    /\ connected = has_ib
    /\ ib_orders = <<>>
    /\ n_obs = 0
    /\ unread = 0
    /\ reward_sum = 0
    /\ enqueued = <<>>
    /\ returned = <<>>
    /\ accepted = {}

\* ------------------------------------------------- finish_on_next_step()
FinishOnNextStep ==
    /\ has_ib
    /\ finish_on_next_step' = TRUE
    /\ UNCHANGED <<has_ib, max_quantity, episode_steps, done, step_num, profit, episode_profit,
                   reward, pos_desired, data_q_none, data_q, observation,
                   act_time, act_start_time>>
    /\ UNCHANGED <<caller_vars, cb_vars, gw_vars, aux_vars>>
    /\ UNCHANGED cl

\* ---------------------------------------------------------------- flatten
\* flatten(), line 150: self.ib.flatten(self.instrument), which cancels the
\* open orders and orders the position to zero.  The caller then sleeps
\* (line 151) until its next line runs.
flatten(K) ==
    /\ pc \in {"r_flatten", "c_flatten"}
    /\ ib_orders' = OrderTarget(CancelAll(ib_orders, K), 0)
    /\ pc' = IF pc = "r_flatten" THEN "r_zero" ELSE "c_disc"
    /\ UNCHANGED <<connected, ib_position>>
    /\ UNCHANGED <<action, done_local, position, open_orders, issued, pos_prev>>
    /\ UNCHANGED <<env_vars, cb_vars, aux_vars>>
    /\ UNCHANGED cl

\* ----------------------------------------------------------------- _close
\* lines 173-175 as they would be without the hasattr test
CloseCall_NoHasattr ==
    /\ pc = "idle"
    /\ done' = TRUE
    /\ pc' = "c_flatten"
    /\ UNCHANGED <<has_ib, max_quantity, episode_steps, step_num, profit, episode_profit, reward,
                   pos_desired, finish_on_next_step, data_q_none, data_q,
                   observation, act_time, act_start_time>>
    /\ UNCHANGED <<action, done_local, position, open_orders, issued, pos_prev>>
    /\ UNCHANGED <<cb_vars, gw_vars, aux_vars>>
    /\ UNCHANGED cl

\* lines 173-175
CloseCall ==
    /\ pc = "idle"
    /\ IF has_ib
       THEN /\ done' = TRUE
            /\ pc' = "c_flatten"
       ELSE UNCHANGED <<done, pc>>
    /\ UNCHANGED <<has_ib, max_quantity, episode_steps, step_num, profit, episode_profit, reward,
                   pos_desired, finish_on_next_step, data_q_none, data_q,
                   observation, act_time, act_start_time>>
    /\ UNCHANGED <<action, done_local, position, open_orders, issued, pos_prev>>
    /\ UNCHANGED <<cb_vars, gw_vars, aux_vars>>
    /\ UNCHANGED cl

\* line 177: self.ib.disconnect()
CloseDisconnect ==
    /\ pc = "c_disc"
    /\ connected' = FALSE
    /\ pc' = "idle"
    /\ UNCHANGED <<ib_position, ib_orders>>
    /\ UNCHANGED <<action, done_local, position, open_orders, issued, pos_prev>>
    /\ UNCHANGED <<env_vars, cb_vars, aux_vars>>
    /\ UNCHANGED cl

\* ----------------------------------------------------------------- _reset
\* line 182
ResetCall ==
    /\ pc = "idle"
    /\ has_ib
    /\ done' = TRUE
    /\ pc' = "r_flatten"
    /\ UNCHANGED <<has_ib, max_quantity, episode_steps, step_num, profit, episode_profit, reward,
                   pos_desired, finish_on_next_step, data_q_none, data_q,
                   observation, act_time, act_start_time>>
    /\ UNCHANGED <<action, done_local, position, open_orders, issued, pos_prev>>
    /\ UNCHANGED <<cb_vars, gw_vars, aux_vars>>
    /\ UNCHANGED cl

\* lines 184-188
ResetZero ==
    /\ pc = "r_zero"
    /\ profit' = 0
    /\ episode_profit' = 0
    /\ reward' = 0
    /\ observation' = NoneObs
    /\ unread' = 0
    /\ reward_sum' = 0
    /\ pc' = "r_undone"
    /\ UNCHANGED <<has_ib, max_quantity, episode_steps, done, step_num, pos_desired, 
                   finish_on_next_step, data_q_none, data_q, act_time, act_start_time>>
    /\ UNCHANGED <<action, done_local, position, open_orders, issued, pos_prev>>
    /\ UNCHANGED n_obs
    /\ UNCHANGED <<cb_vars, gw_vars>>
    /\ UNCHANGED log_vars
    /\ UNCHANGED cl

\* lines 189-193
ResetUndone ==
    /\ pc = "r_undone"
    /\ done' = FALSE
    /\ pos_desired' = 0
    /\ finish_on_next_step' = FALSE
    /\ step_num' = 0
    /\ pc' = "r_queue"
    /\ UNCHANGED <<has_ib, max_quantity, episode_steps, profit, episode_profit, reward, 
                   data_q_none, data_q, observation, act_time, act_start_time>>
    /\ UNCHANGED <<action, done_local, position, open_orders, issued, pos_prev>>
    /\ UNCHANGED <<cb_vars, gw_vars>>
    /\ accepted' = {}
    /\ UNCHANGED <<n_obs, unread, reward_sum, enqueued, returned>>
    /\ UNCHANGED cl

\* line 194: self.data_q = Queue()
ResetQueue ==
    /\ pc = "r_queue"
    /\ data_q_none' = FALSE
    /\ data_q' = <<>>
    /\ pc' = "r_get"
    /\ UNCHANGED <<has_ib, max_quantity, episode_steps, done, step_num, profit, episode_profit,
                   reward, pos_desired, finish_on_next_step, observation,
                   act_time, act_start_time>>
    /\ UNCHANGED <<action, done_local, position, open_orders, issued, pos_prev>>
    /\ UNCHANGED <<cb_vars, gw_vars>>
    /\ enqueued' = <<>>
    /\ returned' = <<>>
    /\ UNCHANGED <<n_obs, unread, reward_sum, accepted>>
    /\ UNCHANGED cl

\* lines 195-197: self.data_q.get() blocks until an item is there
ResetGet ==
    /\ pc = "r_get"
    /\ data_q # <<>>
    /\ observation' = Head(data_q)
    /\ data_q' = Tail(data_q)
    /\ act_start_time' = TRUE
    /\ pc' = "idle"
    /\ UNCHANGED <<has_ib, max_quantity, episode_steps, done, step_num, profit, episode_profit,
                   reward, pos_desired, finish_on_next_step, data_q_none,
                   act_time>>
    /\ UNCHANGED <<action, done_local, position, open_orders, issued, pos_prev>>
    /\ UNCHANGED <<cb_vars, gw_vars>>
    /\ returned' = Append(returned, observation')
    /\ UNCHANGED <<n_obs, unread, reward_sum, enqueued, accepted>>
    /\ UNCHANGED cl

\* ------------------------------------------------------------------ _step
\* line 210 as it would be with > for >=
LastStep_OffByOne(n) ==
    finish_on_next_step \/ (episode_steps # NoEpisodeSteps /\ n > episode_steps)

\* line 210 as it would be without the finish flag
LastStep_CountOnly(n) ==
    episode_steps # NoEpisodeSteps /\ n >= episode_steps

\* line 210: is this the last step of the episode?  n is self.step_num
LastStep(n) ==
    finish_on_next_step \/ (episode_steps # NoEpisodeSteps /\ n >= episode_steps)

\* line 224 as it would be with open_orders < 2
NotConstipated_Strict(pos, open) ==
    Abs(pos) <= max_quantity + PositionSlack /\ open < OpenOrdersLimit

\* line 224: the guard of the order
NotConstipated(pos, open) ==
    Abs(pos) <= max_quantity + PositionSlack /\ open <= OpenOrdersLimit

\* where _step goes on after the order or the warning (line 231)
AfterOrder == IF done_local THEN "s_sleep" ELSE "s_reward"

\* lines 202-218.  time.time() - self.act_start_time raises TypeError while
\* act_start_time is None; after that the call counts itself (202-203)
\* before it looks at self.done (205) and raises ValueError.
StepCall(a) ==
    /\ pc = "idle"
    /\ has_ib
    /\ step_num < MaxStepNum
    /\ \/ /\ ~act_start_time
          /\ UNCHANGED <<act_time, step_num, pc, action, done_local, pos_prev>>
       \/ /\ act_start_time
          /\ done
          /\ act_time' = Min(act_time + 1, ActTimeMaxLen)
          /\ step_num' = step_num + 1
          /\ UNCHANGED <<pc, action, done_local, pos_prev>>
       \/ /\ act_start_time
          /\ ~done
          /\ act_time' = Min(act_time + 1, ActTimeMaxLen)
          /\ step_num' = step_num + 1
          /\ done_local' = LastStep(step_num')
          /\ action' = Clip(IF LastStep(step_num') THEN 0 ELSE a)
          /\ pos_prev' = pos_desired
          /\ pc' = "s_cancel"
    /\ UNCHANGED <<has_ib, max_quantity, episode_steps, done, profit, episode_profit, reward,
                   pos_desired, finish_on_next_step, data_q_none, data_q,
                   observation, act_start_time>>
    /\ UNCHANGED <<position, open_orders, issued>>
    /\ UNCHANGED <<cb_vars, gw_vars, aux_vars>>
    /\ UNCHANGED cl

\* line 220: self.ib.cancel_all(self.instrument)
StepCancelAll(K) ==
    /\ pc = "s_cancel"
    /\ ib_orders' = CancelAll(ib_orders, K)
    /\ pc' = "s_pos"
    /\ UNCHANGED <<connected, ib_position>>
    /\ UNCHANGED <<action, done_local, position, open_orders, issued, pos_prev>>
    /\ UNCHANGED <<env_vars, cb_vars, aux_vars>>
    /\ UNCHANGED cl

\* line 221: position = self.ib.get_position(self.instrument)
StepGetPosition ==
    /\ pc = "s_pos"
    /\ position' = ib_position
    /\ pc' = "s_open"
    /\ UNCHANGED <<action, done_local, open_orders, issued, pos_prev>>
    /\ UNCHANGED <<env_vars, cb_vars, gw_vars, aux_vars>>
    /\ UNCHANGED cl

\* lines 222-229 as they would be with line 225 moved above the guard
StepGuard_AssignsFirst ==
    /\ pc = "s_open"
    /\ open_orders' = Len(ib_orders)
    /\ pos_desired' = TargetPosition(action)
    /\ IF Abs(position) <= max_quantity + PositionSlack /\ open_orders' <= OpenOrdersLimit
       THEN /\ pc' = "s_order"
            /\ UNCHANGED issued
       ELSE /\ pc' = (IF done_local THEN "s_sleep" ELSE "s_reward")
            /\ issued' = "skipped"
    /\ UNCHANGED <<has_ib, max_quantity, episode_steps, done, step_num, profit, episode_profit,
                   reward, finish_on_next_step, data_q_none, data_q, observation,
                   act_time, act_start_time>>
    /\ UNCHANGED <<action, done_local, position, pos_prev>>
    /\ UNCHANGED <<cb_vars, gw_vars, aux_vars>>
    /\ UNCHANGED cl

\* lines 222-224 and 228-229: count the open orders, then order or warn
StepGuard ==
    /\ pc = "s_open"
    /\ open_orders' = Len(ib_orders)
    /\ IF NotConstipated(position, open_orders')
       THEN /\ pc' = "s_order"
            /\ UNCHANGED issued
       ELSE /\ pc' = AfterOrder
            /\ issued' = "skipped"
    /\ UNCHANGED <<action, done_local, position, pos_prev>>
    /\ UNCHANGED <<env_vars, cb_vars, gw_vars, aux_vars>>
    /\ UNCHANGED cl

\* lines 225-227
StepOrder ==
    /\ pc = "s_order"
    /\ pos_desired' = TargetPosition(action)
    /\ ib_orders' = OrderTarget(ib_orders, pos_desired')
    /\ issued' = "issued"
    /\ pc' = AfterOrder
    /\ UNCHANGED <<has_ib, max_quantity, episode_steps, done, step_num, profit, episode_profit,
                   reward, finish_on_next_step, data_q_none, data_q,
                   observation, act_time, act_start_time>>
    /\ UNCHANGED <<action, done_local, position, open_orders, pos_prev>>
    /\ UNCHANGED <<connected, ib_position>>
    /\ UNCHANGED <<cb_vars, aux_vars>>
    /\ UNCHANGED cl

\* lines 231-233: time.sleep(1) on the last step
StepSleep ==
    /\ pc = "s_sleep"
    /\ pc' = "s_reward"
    /\ UNCHANGED <<action, done_local, position, open_orders, issued, pos_prev>>
    /\ UNCHANGED <<env_vars, cb_vars, gw_vars, aux_vars>>
    /\ UNCHANGED cl

\* line 235: self.reward = self.profit.  The locals of the order are dead.
StepReward ==
    /\ pc = "s_reward"
    /\ reward' = profit
    /\ unread' = 0
    /\ action' = 0
    /\ position' = 0
    /\ open_orders' = 0
    /\ pc' = "s_ep"
    /\ UNCHANGED <<has_ib, max_quantity, episode_steps, done, step_num, profit, episode_profit,
                   pos_desired, finish_on_next_step, data_q_none, data_q,
                   observation, act_time, act_start_time>>
    /\ UNCHANGED <<done_local, issued, pos_prev>>
    /\ UNCHANGED <<n_obs, reward_sum>>
    /\ UNCHANGED <<cb_vars, gw_vars>>
    /\ UNCHANGED log_vars
    /\ UNCHANGED cl

\* line 236: self.episode_profit += self.profit
StepEpisodeProfit ==
    /\ pc = "s_ep"
    /\ episode_profit' = episode_profit + profit
    /\ pc' = "s_zero"
    /\ UNCHANGED <<has_ib, max_quantity, episode_steps, done, step_num, profit, reward, pos_desired,
                   finish_on_next_step, data_q_none, data_q, observation,
                   act_time, act_start_time>>
    /\ UNCHANGED <<action, done_local, position, open_orders, issued, pos_prev>>
    /\ UNCHANGED <<n_obs, unread, reward_sum>>
    /\ UNCHANGED <<cb_vars, gw_vars>>
    /\ UNCHANGED log_vars
    /\ UNCHANGED cl

\* line 237 as it would be with line 240 moved above the dequeue
StepZero_SetsDone ==
    /\ pc = "s_zero"
    /\ profit' = 0
    /\ done' = done_local
    /\ pc' = "s_get"
    /\ UNCHANGED <<has_ib, max_quantity, episode_steps, step_num, episode_profit,
                   reward, pos_desired, finish_on_next_step, data_q_none, data_q,
                   observation, act_time, act_start_time>>
    /\ UNCHANGED <<action, done_local, position, open_orders, issued, pos_prev>>
    /\ UNCHANGED <<cb_vars, gw_vars, aux_vars>>
    /\ UNCHANGED cl

\* line 237: self.profit = 0
StepZero ==
    /\ pc = "s_zero"
    /\ profit' = 0
    /\ pc' = "s_get"
    /\ UNCHANGED <<has_ib, max_quantity, episode_steps, done, step_num, episode_profit, reward,
                   pos_desired, finish_on_next_step, data_q_none, data_q,
                   observation, act_time, act_start_time>>
    /\ UNCHANGED <<action, done_local, position, open_orders, issued, pos_prev>>
    /\ UNCHANGED <<cb_vars, gw_vars, aux_vars>>
    /\ UNCHANGED cl

\* line 238 as it would be with a last-in first-out queue
StepGet_Newest ==
    /\ pc = "s_get"
    /\ data_q # <<>>
    /\ observation' = data_q[Len(data_q)]
    /\ data_q' = SubSeq(data_q, 1, Len(data_q) - 1)
    /\ pc' = "s_ret"
    /\ UNCHANGED <<has_ib, max_quantity, episode_steps, done, step_num, profit, episode_profit,
                   reward, pos_desired, finish_on_next_step, data_q_none,
                   act_time, act_start_time>>
    /\ UNCHANGED <<action, done_local, position, open_orders, issued, pos_prev>>
    /\ UNCHANGED <<cb_vars, gw_vars>>
    /\ returned' = Append(returned, observation')
    /\ UNCHANGED <<n_obs, unread, reward_sum, enqueued, accepted>>
    /\ UNCHANGED cl

\* line 238: self.observation = self.data_q.get()
StepGet ==
    /\ pc = "s_get"
    /\ data_q # <<>>
    /\ observation' = Head(data_q)
    /\ data_q' = Tail(data_q)
    /\ pc' = "s_ret"
    /\ UNCHANGED <<has_ib, max_quantity, episode_steps, done, step_num, profit, episode_profit,
                   reward, pos_desired, finish_on_next_step, data_q_none,
                   act_time, act_start_time>>
    /\ UNCHANGED <<action, done_local, position, open_orders, issued, pos_prev>>
    /\ UNCHANGED <<cb_vars, gw_vars>>
    /\ returned' = Append(returned, observation')
    /\ UNCHANGED <<n_obs, unread, reward_sum, enqueued, accepted>>
    /\ UNCHANGED cl

\* lines 240-245 as they would be without line 240
StepReturn_NoDone ==
    /\ pc = "s_ret"
    /\ reward_sum' = reward_sum + reward
    /\ done_local' = FALSE
    /\ issued' = "none"
    /\ pos_prev' = 0
    /\ pc' = "idle"
    /\ UNCHANGED <<has_ib, max_quantity, episode_steps, done, step_num, profit,
                   episode_profit, reward, pos_desired, finish_on_next_step,
                   data_q_none, data_q, observation, act_time, act_start_time>>
    /\ UNCHANGED <<action, position, open_orders>>
    /\ UNCHANGED <<n_obs, unread>>
    /\ UNCHANGED <<cb_vars, gw_vars>>
    /\ UNCHANGED log_vars
    /\ UNCHANGED cl

\* lines 240-245: self.done = done; return observation, reward, done, info
StepReturn ==
    /\ pc = "s_ret"
    /\ done' = done_local
    /\ reward_sum' = reward_sum + reward
    /\ done_local' = FALSE
    /\ issued' = "none"
    /\ pos_prev' = 0
    /\ pc' = "idle"
    /\ UNCHANGED <<has_ib, max_quantity, episode_steps, step_num, profit, episode_profit, reward,
                   pos_desired, finish_on_next_step, data_q_none, data_q,
                   observation, act_time, act_start_time>>
    /\ UNCHANGED <<action, position, open_orders>>
    /\ UNCHANGED <<n_obs, unread>>
    /\ UNCHANGED <<cb_vars, gw_vars>>
    /\ UNCHANGED log_vars
    /\ UNCHANGED cl

\* ------------------------------------------------------------ _on_mktdata
\* line 135 as it would be without "obs is not None"
MayEnqueue_AnyObs(obs) ==
    connected /\ ~done /\ ~data_q_none

\* line 135: the guard of the enqueue
MayEnqueue(obs) ==
    obs # NoneObs /\ connected /\ ~done /\ ~data_q_none

\* lines 127-133: a bar comes in; the transform makes an observation of it
\* (numbered n_obs + 1) or returns None.  Bars keep coming while the gateway
\* is "disconnected".
OnMktdata(ready) ==
    /\ cb = "idle"
    /\ has_ib
    /\ IF ready
       THEN /\ n_obs < MaxObs
            /\ n_obs' = n_obs + 1
            /\ cb_obs' = n_obs'
       ELSE /\ cb_obs' = NoneObs
            /\ UNCHANGED n_obs
    /\ cb' = "m_guard"
    /\ UNCHANGED <<cb_pending, cb_loaded, cb_p>>
    /\ UNCHANGED <<unread, reward_sum>>
    /\ UNCHANGED <<env_vars, caller_vars, gw_vars>>
    /\ UNCHANGED log_vars
    /\ UNCHANGED cl

\* line 135
MktGuard ==
    /\ cb = "m_guard"
    /\ IF MayEnqueue(cb_obs)
       THEN /\ cb' = "m_put"
            /\ UNCHANGED cb_obs
       ELSE /\ cb' = "idle"
            /\ cb_obs' = NoneObs
    /\ UNCHANGED <<cb_pending, cb_loaded, cb_p>>
    /\ UNCHANGED <<env_vars, caller_vars, gw_vars>>
    /\ accepted' = IF MayEnqueue(cb_obs) THEN accepted \cup {cb_obs} ELSE accepted
    /\ UNCHANGED <<n_obs, unread, reward_sum, enqueued, returned>>
    /\ UNCHANGED cl

\* line 136: self.data_q.put_nowait(obs), on the queue self.data_q is now
MktPut ==
    /\ cb = "m_put"
    /\ data_q' = Append(data_q, cb_obs)
    /\ cb_pending' = Len(data_q)
    /\ cb_obs' = NoneObs
    /\ cb' = "m_size"
    /\ UNCHANGED <<has_ib, max_quantity, episode_steps, done, step_num, profit, episode_profit,
                   reward, pos_desired, finish_on_next_step, data_q_none,
                   observation, act_time, act_start_time>>
    /\ UNCHANGED <<cb_loaded, cb_p>>
    /\ UNCHANGED <<caller_vars, gw_vars>>
    /\ enqueued' = Append(enqueued, cb_obs)
    /\ UNCHANGED <<n_obs, unread, reward_sum, returned, accepted>>
    /\ UNCHANGED cl

\* line 137 as it would be with qsize() > 2
MktSize_MoreThanTwo ==
    /\ cb = "m_size"
    /\ cb' = IF Len(data_q) > BackpressureSize + 1 THEN "m_warn" ELSE "idle"
    /\ cb_pending' = IF Len(data_q) > BackpressureSize + 1 THEN cb_pending ELSE 0
    /\ UNCHANGED <<cb_obs, cb_loaded, cb_p>>
    /\ UNCHANGED <<env_vars, caller_vars, gw_vars, aux_vars>>
    /\ UNCHANGED cl

\* line 137: if self.data_q.qsize() > 1
MktSize ==
    /\ cb = "m_size"
    /\ cb' = IF Len(data_q) > BackpressureSize THEN "m_warn" ELSE "idle"
    /\ cb_pending' = IF Len(data_q) > BackpressureSize THEN cb_pending ELSE 0
    /\ UNCHANGED <<cb_obs, cb_loaded, cb_p>>
    /\ UNCHANGED <<env_vars, caller_vars, gw_vars, aux_vars>>
    /\ UNCHANGED cl

\* line 138: self.log.warning('Your agent is falling behind! ...')
MktWarn ==
    /\ cb = "m_warn"
    /\ cb' = "idle"
    /\ cb_pending' = 0
    /\ UNCHANGED <<cb_obs, cb_loaded, cb_p>>
    /\ UNCHANGED <<env_vars, caller_vars, gw_vars, aux_vars>>
    /\ UNCHANGED cl

\* -------------------------------------------------------------- _on_order
\* An open order fills: the position moves and the gateway calls _on_order.
\* Line 143, self.profit += order.profit, first loads self.profit ...
OnOrder(i, p) ==
    /\ cb = "idle"
    /\ i \in 1..Len(ib_orders)
    /\ ib_position' = ib_position + ib_orders[i]
    /\ ib_orders' = RemoveAt(ib_orders, i)
    /\ cb_loaded' = profit
    /\ cb_p' = p
    /\ cb' = "o_store"
    /\ UNCHANGED <<cb_obs, cb_pending>>
    /\ UNCHANGED connected
    /\ UNCHANGED <<env_vars, caller_vars, aux_vars>>
    /\ UNCHANGED cl

\* ... and then stores the sum.
OrderStore ==
    /\ cb = "o_store"
    /\ profit' = cb_loaded + cb_p
    /\ unread' = unread + cb_p
    /\ cb_loaded' = 0
    /\ cb_p' = 0
    /\ cb' = "idle"
    /\ UNCHANGED <<has_ib, max_quantity, episode_steps, done, step_num, episode_profit, reward,
                   pos_desired, finish_on_next_step, data_q_none, data_q,
                   observation, act_time, act_start_time>>
    /\ UNCHANGED <<cb_obs, cb_pending>>
    /\ UNCHANGED <<n_obs, reward_sum>>
    /\ UNCHANGED <<caller_vars, gw_vars>>
    /\ UNCHANGED log_vars
    /\ UNCHANGED cl

\* ------------------------------------------------------------------- Next
Next ==
    \/ FinishOnNextStep
    \/ CloseCall
    \/ \E K \in SUBSET (1..Len(ib_orders)) : flatten(K)
    \/ CloseDisconnect
    \/ ResetCall
    \/ ResetZero
    \/ ResetUndone
    \/ ResetQueue
    \/ ResetGet
    \/ \E a \in ActionVals : StepCall(a)
    \/ \E K \in SUBSET (1..Len(ib_orders)) : StepCancelAll(K)
    \/ StepGetPosition
    \/ StepGuard
    \/ StepOrder
    \/ StepSleep
    \/ StepReward
    \/ StepEpisodeProfit
    \/ StepZero
    \/ StepGet
    \/ StepReturn
    \/ \E ready \in BOOLEAN : OnMktdata(ready)
    \/ MktGuard
    \/ MktPut
    \/ MktSize
    \/ MktWarn
    \/ \E i \in 1..Len(ib_orders), p \in Profits : OnOrder(i, p)
    \/ OrderStore

Spec == Init /\ [][Next]_vars

\* ======================================================================
\* The conversion of an action into a target position, on its own
\* ======================================================================
\* A call of _step reduced to what it does to its action: every raw action
\* up to MaxRawAction in size, for each max_quantity of TargetQuantities.
InitTarget ==
    /\ has_ib = TRUE
    /\ max_quantity \in TargetQuantities
    /\ episode_steps = NoEpisodeSteps
    /\ done = FALSE
    /\ step_num = 0
    /\ profit = 0
    /\ episode_profit = 0
    /\ reward = 0
    /\ pos_desired = 0
    /\ ib_position = 0
    /\ finish_on_next_step = FALSE
    /\ data_q_none = FALSE
    /\ data_q = <<>>
    /\ observation = NoneObs
    /\ act_time = 0
    /\ act_start_time = TRUE
    /\ pc = "t_raw"
    /\ action \in (-MaxRawAction)..MaxRawAction
    /\ done_local = FALSE
    /\ position = 0
    /\ open_orders = 0
    /\ issued = "none"
    /\ pos_prev = 0
    /\ cb = "idle"
    /\ cb_obs = NoneObs
    /\ cb_loaded = 0
    /\ cb_p = 0
    /\ cl = "idle"
    /\ cb_pending = 0
    /\ connected = TRUE
    /\ ib_orders = <<>>
    /\ n_obs = 0
    /\ unread = 0
    /\ reward_sum = 0
    /\ enqueued = <<>>
    /\ returned = <<>>
    /\ accepted = {}

\* lines 215-217: clip, then assert that the action space contains the result
TargetClip ==
    /\ pc = "t_raw"
    /\ action' = Clip(action)
    /\ pc' = IF Contains(action') THEN "t_clipped" ELSE "t_rejected"
    /\ UNCHANGED <<done_local, position, open_orders, issued, pos_prev>>
    /\ UNCHANGED <<env_vars, cb_vars, gw_vars, aux_vars>>
    /\ UNCHANGED cl

\* line 225: self.pos_desired = int(round(action * self.max_quantity))
TargetRound ==
    /\ pc = "t_clipped"
    /\ pos_desired' = TargetPosition(action)
    /\ pc' = "t_done"
    /\ UNCHANGED <<has_ib, max_quantity, episode_steps, done, step_num, profit,
                   episode_profit, reward, finish_on_next_step, data_q_none,
                   data_q, observation, act_time, act_start_time>>
    /\ UNCHANGED <<action, done_local, position, open_orders, issued, pos_prev>>
    /\ UNCHANGED <<cb_vars, gw_vars, aux_vars>>
    /\ UNCHANGED cl

NextTarget ==
    \/ TargetClip
    \/ TargetRound

SpecTarget == InitTarget /\ [][NextTarget]_vars

\* ======================================================================
\* The environment under a connected feed that never ends
\* ======================================================================
\* The gateway stays connected (close is not called), honours every cancel
\* request, and bars keep coming for ever: observations are no longer told
\* apart (LiveObs), and a ready bar comes only while fewer than MaxQueueLive
\* items are pending, which is always so while the consumer waits.  Fills
\* make no profit, which keeps the accounts bounded over endless episodes,
\* and no position is held at construction.
LiveObs == 1
LiveProfits == {0}

InitLive == Init /\ has_ib /\ ib_position = 0

\* lines 127-133 under the endless feed
OnMktdataLive(ready) ==
    /\ cb = "idle"
    /\ IF ready
       THEN /\ Len(data_q) < MaxQueueLive
            /\ cb_obs' = LiveObs
       ELSE cb_obs' = NoneObs
    /\ cb' = "m_guard"
    /\ UNCHANGED <<cb_pending, cb_loaded, cb_p>>
    /\ UNCHANGED <<env_vars, caller_vars, gw_vars, aux_vars>>
    /\ UNCHANGED cl

\* a call of reset or step that is under way takes its next step
CallerStep ==
    \/ flatten({})
    \/ ResetZero
    \/ ResetUndone
    \/ ResetQueue
    \/ ResetGet
    \/ StepCancelAll({})
    \/ StepGetPosition
    \/ StepGuard
    \/ StepOrder
    \/ StepSleep
    \/ StepReward
    \/ StepEpisodeProfit
    \/ StepZero
    \/ StepGet
    \/ StepReturn

\* a callback that is under way takes its next step
CallbackStep ==
    \/ MktGuard
    \/ MktPut
    \/ MktSize
    \/ MktWarn
    \/ OrderStore

NextLive ==
    \/ FinishOnNextStep
    \/ ResetCall
    \/ \E a \in ActionVals : StepCall(a)
    \/ CallerStep
    \/ \E ready \in BOOLEAN : OnMktdataLive(ready)
    \/ CallbackStep
    \/ \E i \in 1..Len(ib_orders), p \in LiveProfits : OnOrder(i, p)

\* Both threads keep running, and ready bars keep being delivered.
SpecLive ==
    /\ InitLive
    /\ [][NextLive]_vars
    /\ WF_vars(CallerStep)
    /\ WF_vars(CallbackStep)
    /\ SF_vars(OnMktdataLive(TRUE))

\* ======================================================================
\* The environment with _close run by a second thread
\* ======================================================================
\* _close is registered to run at exit (line 174) and does not wait for a
\* call of reset or step that is under way on another thread.  Here it runs
\* once, at any moment, beside the caller's thread; the caller's thread
\* itself only resets and steps, the gateway honours every cancel and no
\* position is held at construction.
InitClose == Init /\ has_ib /\ ib_position = 0

\* lines 174-175
CloserCall ==
    /\ cl = "idle"
    /\ has_ib
    /\ done' = TRUE
    /\ cl' = "c_flatten"
    /\ UNCHANGED <<has_ib, max_quantity, episode_steps, step_num, profit,
                   episode_profit, reward, pos_desired, finish_on_next_step,
                   data_q_none, data_q, observation, act_time, act_start_time>>
    /\ UNCHANGED <<caller_vars, cb_vars, gw_vars, aux_vars>>

\* line 176: self.flatten(), lines 150-151
CloserFlatten ==
    /\ cl = "c_flatten"
    /\ ib_orders' = OrderTarget(CancelAll(ib_orders, {}), 0)
    /\ cl' = "c_disc"
    /\ UNCHANGED <<connected, ib_position>>
    /\ UNCHANGED <<env_vars, caller_vars, cb_vars, aux_vars>>

\* line 177: self.ib.disconnect()
CloserDisconnect ==
    /\ cl = "c_disc"
    /\ connected' = FALSE
    /\ cl' = "closed"
    /\ UNCHANGED <<ib_position, ib_orders>>
    /\ UNCHANGED <<env_vars, caller_vars, cb_vars, aux_vars>>

NextClose ==
    \/ FinishOnNextStep
    \/ ResetCall
    \/ \E a \in ActionVals : StepCall(a)
    \/ CallerStep
    \/ \E ready \in BOOLEAN : OnMktdata(ready)
    \/ CallbackStep
    \/ \E i \in 1..Len(ib_orders), p \in Profits : OnOrder(i, p)
    \/ CloserCall
    \/ CloserFlatten
    \/ CloserDisconnect

SpecClose == InitClose /\ [][NextClose]_vars

\* ======================================================================
\* The claims
\* ======================================================================
StepPcs == {"s_cancel", "s_pos", "s_open", "s_order", "s_sleep", "s_reward",
            "s_ep", "s_zero", "s_get", "s_ret"}
\* where _step's locals action, position and open_orders are live
OrderPcs == {"s_cancel", "s_pos", "s_open", "s_order"}
\* where _step is right after the order or the warning
DecidedPcs == {"s_sleep", "s_reward"}

\* C1 (as claimed): the reward a step reads (line 235) is the sum of the
\* profit of the fills recorded since the accumulator was read the last
\* time, and what line 237 zeroes is what was read, so that no fill is
\* dropped or counted twice; the accumulator is zero right after.
C1_RewardIsSumOfFills ==
    [][/\ (pc = "s_reward" /\ pc' = "s_ep") => reward' = unread
       /\ (pc = "s_zero" /\ pc' = "s_get") => (profit = reward /\ profit' = 0)]_vars

\* C2 (as claimed): a step called while done fails and changes no accounting
\* field: step counter, per-step profit, episode profit, desired position,
\* latency history; and it cancels and issues no order.
C2_DoneStepChangesNothing ==
    [][((\E a \in ActionVals : StepCall(a)) /\ done)
        => /\ pc' = "idle"
           /\ UNCHANGED <<step_num, profit, episode_profit, pos_desired, act_time,
                          ib_orders>>]_vars

\* C3: with episode_steps = N configured, no step runs past the Nth; the Nth
\* step has its action forced to 0, returns done = True (done_local is what
\* line 240 stores and line 245 returns) and, when it issues its order, the
\* order targets position zero; a step before the Nth is the last one only
\* when finish was requested.
C3_NthStepIsLast ==
    (pc \in StepPcs /\ episode_steps # NoEpisodeSteps)
        => /\ step_num <= episode_steps
           /\ step_num = episode_steps
                => /\ done_local
                   /\ pc \in OrderPcs => action = 0
                   /\ issued = "issued" => pos_desired = 0
           /\ (step_num < episode_steps /\ ~finish_on_next_step) => ~done_local

C3_Witness ==
    /\ pc = "s_ret"
    /\ episode_steps = 2
    /\ step_num = 2
    /\ issued = "issued"
    /\ pos_prev # 0
    /\ ~finish_on_next_step

\* C4: the finish flag, once set, is cleared by reset alone (line 192), and
\* a step called in an active episode with the flag set is the last step: its
\* action is forced to 0 and it returns done = True, whatever the step count
\* and the action passed.
C4_FinishForcesLastStep ==
    [][/\ (finish_on_next_step /\ ~finish_on_next_step') => pc = "r_undone"
       /\ ((\E a \in ActionVals : StepCall(a)) /\ act_start_time /\ ~done
                /\ finish_on_next_step)
            => (pc' = "s_cancel" /\ done_local' /\ action' = 0)
       /\ (pc = "s_ret" /\ pc' = "idle" /\ done_local) => done']_vars

C4_Witness ==
    /\ pc = "s_ret"
    /\ done_local
    /\ finish_on_next_step
    /\ episode_steps = NoEpisodeSteps
    /\ step_num = 2

\* C5 (as claimed): when reset returns, the position held is zero, the
\* episode profit is zero, the step counter is zero and done is false.
C5_ResetReturnsFlat ==
    [][(pc = "r_get" /\ pc' = "idle")
        => /\ ib_position' = 0
           /\ episode_profit' = 0
           /\ step_num' = 0
           /\ ~done']_vars

\* C6: the queue never holds None, and neither does the observation that
\* reset or step hands to the caller.
C6_NoNoneInQueue ==
    /\ \A i \in 1..Len(data_q) : data_q[i] # NoneObs
    /\ cb = "m_put" => cb_obs # NoneObs
    /\ (pc = "s_ret" \/ (pc = "idle" /\ act_start_time)) => observation # NoneObs

C6_Witness ==
    /\ cb = "m_guard"
    /\ cb_obs = NoneObs
    /\ connected /\ ~done /\ ~data_q_none
    /\ pc = "s_get"
    /\ data_q = <<>>

C8_OrderGuard ==
    /\ (pc = "s_order" \/ (pc \in DecidedPcs /\ issued = "issued"))
        => (Abs(position) <= max_quantity + 1 /\ open_orders <= 2)
    /\ (pc \in DecidedPcs /\ issued = "skipped")
        => ~(Abs(position) <= max_quantity + 1 /\ open_orders <= 2)
    /\ pc \in DecidedPcs => issued \in {"issued", "skipped"}

C8_Witness ==
    /\ pc \in DecidedPcs
    /\ issued = "issued"
    /\ Abs(position) = max_quantity + 1
    /\ open_orders = 2

\* C9: a step that skips its order submits none and leaves pos_desired as it
\* was when the step was called; it goes on to read the reward and to return
\* like any other step, with pos_desired still unchanged.
C9_SkipLeavesDesired ==
    [][/\ (pc = "s_open" /\ issued' = "skipped")
            => /\ ib_orders' = ib_orders
               /\ pos_desired' = pos_prev
               /\ pc' \in DecidedPcs
       /\ (pc = "s_ret" /\ pc' = "idle" /\ issued = "skipped")
            => pos_desired' = pos_prev]_vars

C9_Witness ==
    /\ pc = "s_ret"
    /\ issued = "skipped"
    /\ pos_desired # 0

\* C10 (as claimed): between calls the episode profit is the sum of the
\* rewards the steps have returned since the last reset.
C10_EpisodeProfitIsRewardSum ==
    pc = "idle" => episode_profit = reward_sum

\* C11: a raw action is clipped to the nearest bound of [-1, 1] and the call
\* goes on (the assertion of line 216 never fails); the desired position is
\* the integer nearest to clipped action x max_quantity, a tie going to the
\* even neighbour on every call, so that max_quantity = 10 gives 6 for 0.55
\* and 2 for 0.25; its size never exceeds max_quantity.
C11_ClipAndRound ==
    [][/\ TargetClip
            => /\ pc' = "t_clipped"
               /\ action < -100 => action' = -100
               /\ action > 100 => action' = 100
               /\ (-100 <= action /\ action <= 100) => action' = action
       /\ TargetRound
            => /\ Abs(pos_desired') <= max_quantity
               /\ 2 * Abs(100 * pos_desired' - action * max_quantity) <= 100
               /\ 2 * Abs(100 * pos_desired' - action * max_quantity) = 100
                    => pos_desired' % 2 = 0
               /\ (max_quantity = 10 /\ action = 55) => pos_desired' = 6
               /\ (max_quantity = 10 /\ action = 25) => pos_desired' = 2]_vars

C11_Witness ==
    /\ pc = "t_done"
    /\ max_quantity = 10
    /\ action = 25
    /\ pos_desired = 2

\* C12: the environment is done until the first reset returns; a step called
\* while done (or before the first reset) fails and leaves it done, and reset
\* can then be called; a step called while active is accepted; a step that
\* returns done = True leaves the environment done; done is cleared by reset
\* alone, and when reset returns the environment is active.
C12_Lifecycle ==
    [][/\ (pc = "idle" /\ ~act_start_time) => done
       /\ ((\E a \in ActionVals : StepCall(a)) /\ (done \/ ~act_start_time))
            => (pc' = "idle" /\ done' = done /\ ENABLED ResetCall)
       /\ ((\E a \in ActionVals : StepCall(a)) /\ ~done /\ act_start_time)
            => pc' = "s_cancel"
       /\ (pc = "s_ret" /\ pc' = "idle") => done' = done_local
       /\ (done /\ ~done') => pc = "r_undone"
       /\ (pc = "r_get" /\ pc' = "idle") => (~done' /\ act_start_time')]_vars

\* a step is accepted after a terminal step, a failed step and a reset
C12_Witness ==
    /\ pc = "s_cancel"
    /\ episode_steps = 1
    /\ step_num = 1
    /\ act_time = 3
    /\ connected

\* C13 (as claimed): when the callback enqueues (line 136), the observation
\* is not None, the gateway is connected, done is false and the queue has
\* been made by a reset.
C13_EnqueueOnlyIfGuard ==
    [][MktPut => (cb_obs # NoneObs /\ connected /\ ~done /\ ~data_q_none)]_vars

\* C14: inside a step the done flag is set at line 240 alone, after the
\* dequeue; while reset or step waits for an observation done is false, so
\* the callback is not gated off; and under a connected feed that keeps
\* delivering ready bars every call of reset and step returns.
C14_NoDeadlock ==
    /\ [][(pc \in StepPcs /\ ~done /\ done') => pc = "s_ret"]_vars
    /\ [](pc \in {"r_get", "s_get"} => ~done)
    /\ (pc # "idle") ~> (pc = "idle")

\* a terminal step waits on an empty queue
C14_Witness ==
    /\ pc = "s_get"
    /\ done_local
    /\ data_q = <<>>
    /\ cb = "idle"

\* C15 (as claimed): the callback reports backpressure exactly when the
\* queue held more than one item at the time of the enqueue.
C15_ReportedIfMoreThanOnePending ==
    [][MktSize => (cb' = "m_warn" <=> cb_pending > 1)]_vars

\* C15 (corrected): the observation is enqueued first, whatever the backlog,
\* and no item is dropped; backpressure is reported exactly when the queue
\* then holds more than one item, the new one included, and is reported
\* only if the enqueue found at least one item pending; reporting changes
\* nothing else and the callback returns.
C15_ReportedIfMoreThanOneQueued ==
    [][/\ MktPut => (data_q' = data_q \o <<cb_obs>> /\ cb' = "m_size")
       /\ MktSize
            => /\ cb' = "m_warn" <=> Len(data_q) > 1
               /\ cb' = "m_warn" => cb_pending >= 1
               /\ UNCHANGED <<env_vars, caller_vars, gw_vars>>
       /\ MktWarn => (cb' = "idle" /\ UNCHANGED <<env_vars, caller_vars, gw_vars>>)]_vars

\* backpressure reported with one item pending at the enqueue
C15_Witness ==
    /\ cb = "m_warn"
    /\ cb_pending = 1
    /\ Len(data_q) = 2

\* C16: the observations reset and the steps have returned since the queue
\* was made, followed by those still in the queue, are the observations
\* enqueued since then, in the order of the enqueues: none is skipped, none
\* returned twice.  The caller holds the one returned last; reset has
\* returned one and each accepted step one more, whatever the backlog.
C16_FifoOrder ==
    /\ enqueued = returned \o data_q
    /\ (pc \in ({"idle"} \cup StepPcs) /\ returned # <<>>)
        => observation = returned[Len(returned)]
    /\ (pc = "idle" /\ act_start_time /\ ~done) => Len(returned) = step_num + 1
    /\ pc \in StepPcs => Len(returned) = step_num + (IF pc = "s_ret" THEN 1 ELSE 0)

\* a step returns the second observation while the third is waiting
C16_Witness ==
    /\ pc = "s_ret"
    /\ returned = <<1, 2>>
    /\ data_q = <<3>>

\* the order in which _step (199-245), _reset (179-197) and _close (171-177)
\* run their lines
CallerEdges ==
    {<<"idle", "s_cancel">>, <<"s_cancel", "s_pos">>, <<"s_pos", "s_open">>,
     <<"s_open", "s_order">>, <<"s_open", "s_sleep">>, <<"s_open", "s_reward">>,
     <<"s_order", "s_sleep">>, <<"s_order", "s_reward">>, <<"s_sleep", "s_reward">>,
     <<"s_reward", "s_ep">>, <<"s_ep", "s_zero">>, <<"s_zero", "s_get">>,
     <<"s_get", "s_ret">>, <<"s_ret", "idle">>,
     <<"idle", "r_flatten">>, <<"r_flatten", "r_zero">>, <<"r_zero", "r_undone">>,
     <<"r_undone", "r_queue">>, <<"r_queue", "r_get">>, <<"r_get", "idle">>,
     <<"idle", "c_flatten">>, <<"c_flatten", "c_disc">>, <<"c_disc", "idle">>}

\* C17, all but its last clause: a step cancels, then reads the position and
\* counts the open orders, then orders or skips, sleeps if it is the last,
\* and only then reads the reward and dequeues; a reset sets done, flattens,
\* and only then clears done.
C17_Order ==
    /\ pc' # pc => <<pc, pc'>> \in CallerEdges
    /\ (pc \in {"s_open", "s_order"} /\ pc' = "s_reward") => ~done_local
    /\ (pc = "idle" /\ pc' = "r_flatten") => done'
    /\ pc \in {"r_flatten", "r_zero"} => done'

\* C17 (as claimed): the calls are made in that order, so that no
\* observation is enqueued while reset is flattening.
C17_OrderedCalls ==
    [][/\ C17_Order
       /\ MktPut => pc \notin {"r_flatten", "r_zero"}]_vars

\* C18 (as claimed): every observation that passed the guard of line 135
\* since reset cleared done (line 189) is in the queue that reset and the
\* following steps dequeue from, has been returned from it, or is about to
\* be put into it.
C18_NoAcceptedObservationLost ==
    \A o \in accepted :
        \/ \E i \in 1..Len(enqueued) : enqueued[i] = o
        \/ cb = "m_put" /\ cb_obs = o

\* C19 (as claimed): done goes from true to false at line 189 of reset and
\* nowhere else, also when close has set it while a step was under way.
C19_DoneClearedByResetOnly ==
    [][(done /\ ~done') => pc = "r_undone"]_vars

\* where the episode that reset has started has not issued an order yet:
\* every open order was issued before line 184 zeroed the accounts
NoOwnOrderYet ==
    \/ pc \in {"r_undone", "r_queue", "r_get"}
    \/ pc = "idle" /\ act_start_time /\ ~done /\ step_num = 0
    \/ pc \in OrderPcs /\ step_num = 1

\* C20 (as claimed): the fill of an order issued before a reset adds nothing
\* to the accumulator the new episode's rewards are read from, and a first
\* step that issues no order of its own reads a reward of zero and leaves
\* the episode profit at zero.
C20_OldFillsNotCounted ==
    [][/\ (OrderStore /\ NoOwnOrderYet) => profit' = profit
       /\ (pc = "s_reward" /\ pc' = "s_ep" /\ step_num = 1 /\ issued = "skipped")
            => reward' = 0
       /\ (pc = "s_ep" /\ pc' = "s_zero" /\ step_num = 1 /\ issued = "skipped")
            => episode_profit' = 0]_vars

====
